---------------------------- MODULE Spec2Model ----------------------------
(***************************************************************************)
(* A model of the WIT generator of src/src/main.rs: identifier             *)
(* normalisation and validation, the Rust-to-WIT type mapper, the          *)
(* collector of record/variant declarations, the interface generator with  *)
(* its type-closure worklist, the per-project driver and the world         *)
(* aggregation of main.                                                    *)
(*                                                                         *)
(* Text is modelled as TLA+ strings, character by character (Len, \o and   *)
(* SubSeq), so that formatting, substring search and line splitting are    *)
(* computed the way the code computes them.  Characters are ASCII.         *)
(* File-system calls are modelled as succeeding.                           *)
(***************************************************************************)
EXTENDS Naturals, Sequences, FiniteSets, TLC

(***************************************************************************)
(* Characters and strings                                                  *)
(***************************************************************************)
UpperAlphabet == "ABCDEFGHIJKLMNOPQRSTUVWXYZ"
LowerAlphabet == "abcdefghijklmnopqrstuvwxyz"
DigitAlphabet == "0123456789"

Char(s, i) == SubSeq(s, i, i)

CharsOf(s) == {Char(s, i) : i \in 1..Len(s)}

UpperChars == CharsOf(UpperAlphabet)
LowerChars == CharsOf(LowerAlphabet)
DigitChars == CharsOf(DigitAlphabet)

\* char::is_uppercase, char::is_lowercase, char::is_digit(10)
is_uppercase(c) == c \in UpperChars
is_lowercase(c) == c \in LowerChars
is_digit(c) == c \in DigitChars

\* char::to_lowercase().next(): the table of the 26 cased ASCII letters
LowerTable ==
    [c \in UpperChars |->
        LET i == CHOOSE k \in 1..Len(UpperAlphabet) : Char(UpperAlphabet, k) = c
        IN  Char(LowerAlphabet, i)]

char_to_lowercase(c) == IF c \in UpperChars THEN LowerTable[c] ELSE c

RECURSIVE MapChars(_, _, _)
MapChars(s, i, acc) ==
    IF i > Len(s) THEN acc
    ELSE MapChars(s, i + 1, acc \o char_to_lowercase(Char(s, i)))

\* str::to_lowercase
to_lowercase(s) == MapChars(s, 1, "")

\* str::starts_with, str::ends_with, str::contains
starts_with(s, p) == Len(p) <= Len(s) /\ SubSeq(s, 1, Len(p)) = p
ends_with(s, p) == Len(p) <= Len(s) /\ SubSeq(s, Len(s) - Len(p) + 1, Len(s)) = p
contains(s, p) ==
    \E i \in 1..(Len(s) + 1) :
        i + Len(p) - 1 <= Len(s) /\ SubSeq(s, i, i + Len(p) - 1) = p

RECURSIVE ReplaceFrom(_, _, _, _, _)
ReplaceFrom(s, from, to, i, acc) ==
    IF i > Len(s) THEN acc
    ELSE IF Char(s, i) = from
         THEN ReplaceFrom(s, from, to, i + 1, acc \o to)
         ELSE ReplaceFrom(s, from, to, i + 1, acc \o Char(s, i))

\* str::replace for a one-character pattern
replace(s, from, to) == ReplaceFrom(s, from, to, 1, "")

RECURSIVE JoinFrom(_, _, _)
JoinFrom(parts, sep, i) ==
    IF i > Len(parts) THEN ""
    ELSE IF i = Len(parts) THEN parts[i]
    ELSE parts[i] \o sep \o JoinFrom(parts, sep, i + 1)

\* [String]::join
join(parts, sep) == JoinFrom(parts, sep, 1)

\* Option<T>
None == <<>>
Some(v) == <<v>>
is_some(o) == o # <<>>
unwrap(o) == o[1]

(***************************************************************************)
(* Identifier Normalizer                                                   *)
(***************************************************************************)
RECURSIVE KebabLoop(_, _, _)
KebabLoop(chars, i, result) ==
    IF i > Len(chars) THEN result
    ELSE LET c == Char(chars, i)
         IN  IF is_uppercase(c)
             THEN LET hyphen ==
                          i > 1
                          /\ (is_lowercase(Char(chars, i - 1))
                              \/ (i < Len(chars) /\ is_lowercase(Char(chars, i + 1))))
                  IN  KebabLoop(chars, i + 1,
                          result \o (IF hyphen THEN "-" ELSE "") \o char_to_lowercase(c))
             ELSE KebabLoop(chars, i + 1, result \o c)

to_kebab_case_no_underscore(s) == KebabLoop(s, 1, "")

to_kebab_case(s) ==
    IF contains(s, "_") THEN replace(s, "_", "-")
    ELSE KebabLoop(s, 1, "")

\* anyhow::Result: Ok(v) or Err(e); a naming error carries the kind label,
\* the raw name and which rule it broke
Ok(v) == [ok |-> TRUE, v |-> v]
Err(e) == [ok |-> FALSE, e |-> e]
NamingError(kind, name, rule) == [kind |-> kind, name |-> name, rule |-> rule]
\* any other anyhow error, with its message
Failure(msg) == [kind |-> "", name |-> "", rule |-> msg]

validate_name_nolower(name, kind) ==
    IF \E i \in 1..Len(name) : is_digit(Char(name, i))
    THEN Err(NamingError(kind, name, "numbers"))
    ELSE IF contains(name, "stream")
    THEN Err(NamingError(kind, name, "stream"))
    ELSE Ok("unit")

validate_name(name, kind) ==
    IF \E i \in 1..Len(name) : is_digit(Char(name, i))
    THEN Err(NamingError(kind, name, "numbers"))
    ELSE IF contains(to_lowercase(name), "stream")
    THEN Err(NamingError(kind, name, "stream"))
    ELSE Ok("unit")

remove_state_suffix(name) ==
    IF ends_with(name, "State") THEN SubSeq(name, 1, Len(name) - 5) ELSE name

(***************************************************************************)
(* Syntax trees (syn).  A type is one of                                   *)
(*   [t |-> "Path", ident, args]   last path segment and the type          *)
(*                                 arguments of its angle brackets         *)
(*   [t |-> "Reference", elem]                                             *)
(*   [t |-> "Tuple", elems]                                                *)
(*   [t |-> "Other"]               any other syn::Type                     *)
(***************************************************************************)
TPath(ident) == [t |-> "Path", ident |-> ident, args |-> <<>>]
TGeneric(ident, arg) == [t |-> "Path", ident |-> ident, args |-> <<arg>>]
TRef(elem) == [t |-> "Reference", elem |-> elem]
TTuple(elems) == [t |-> "Tuple", elems |-> elems]
TOther == [t |-> "Other"]

\* HashMap<String, String>
EmptyMap == [k \in {} |-> ""]
keys(m) == DOMAIN m
insert_keep_first(m, k, v) ==
    [x \in (DOMAIN m) \cup {k} |-> IF x \in DOMAIN m THEN m[x] ELSE v]
insert(m, k, v) == [x \in (DOMAIN m) \cup {k} |-> IF x = k THEN v ELSE m[x]]
get(m, k) == IF k \in DOMAIN m THEN Some(m[k]) ELSE None

(***************************************************************************)
(* Type Expression Mapper                                                  *)
(***************************************************************************)
PrimitiveNames == {"i32", "u32", "i64", "u64", "f32", "f64", "String", "bool"}

PrimitiveWitNarrow(type_name) ==
    CASE type_name = "i32" -> "s32"
      [] type_name = "u32" -> "u32"
      [] type_name = "i64" -> "s32"
      [] type_name = "u64" -> "u64"
      [] type_name = "f32" -> "f32"
      [] type_name = "f64" -> "f64"
      [] type_name = "String" -> "string"
      [] type_name = "bool" -> "bool"

PrimitiveWit(type_name) ==
    CASE type_name = "i32" -> "s32"
      [] type_name = "u32" -> "u32"
      [] type_name = "i64" -> "s64"
      [] type_name = "u64" -> "u64"
      [] type_name = "f32" -> "f32"
      [] type_name = "f64" -> "f64"
      [] type_name = "String" -> "string"
      [] type_name = "bool" -> "bool"

\* the value of a successful mapping: the WIT text and the used_types set
\* as the call leaves it
Mapped(wit, used_types) == Ok([wit |-> wit, used |-> used_types])

RECURSIVE rust_type_to_wit(_, _)
RECURSIVE TupleElems(_, _, _, _)

\* the loop over type_tuple.elems; `?` returns the first error
TupleElems(elems, i, elem_types, used_types) ==
    IF i > Len(elems) THEN Mapped("tuple<" \o join(elem_types, ", ") \o ">", used_types)
    ELSE LET r == rust_type_to_wit(elems[i], used_types)
         IN  IF r.ok
             THEN TupleElems(elems, i + 1, Append(elem_types, r.v.wit), r.v.used)
             ELSE r

rust_type_to_wit(ty, used_types) ==
    CASE ty.t = "Path" ->
            IF ty.ident \in PrimitiveNames
            THEN Mapped(PrimitiveWit(ty.ident), used_types)
            ELSE IF ty.ident = "Vec"
            THEN IF ty.args # <<>>
                 THEN LET r == rust_type_to_wit(ty.args[1], used_types)
                      IN  IF r.ok THEN Mapped("list<" \o r.v.wit \o ">", r.v.used) ELSE r
                 ELSE Mapped("list<any>", used_types)
            ELSE IF ty.ident = "Option"
            THEN IF ty.args # <<>>
                 THEN LET r == rust_type_to_wit(ty.args[1], used_types)
                      IN  IF r.ok THEN Mapped("option<" \o r.v.wit \o ">", r.v.used) ELSE r
                 ELSE Mapped("option<any>", used_types)
            ELSE LET v == validate_name(ty.ident, "Type")
                 IN  IF v.ok
                     THEN LET kebab_custom == to_kebab_case(ty.ident)
                          IN  Mapped(kebab_custom, used_types \cup {kebab_custom})
                     ELSE v
      [] ty.t = "Reference" -> rust_type_to_wit(ty.elem, used_types)
      [] ty.t = "Tuple" ->
            IF ty.elems = <<>> THEN Mapped("unit", used_types)
            ELSE TupleElems(ty.elems, 1, <<>>, used_types)
      [] OTHER -> Mapped("unknown", used_types)

(***************************************************************************)
(* Type Declaration Collector.  Top-level items are                        *)
(*   [item |-> "Struct", ident, shape, named]   shape: Named, Unnamed or   *)
(*                                              Unit; named: <<[ident,ty]>>*)
(*   [item |-> "Enum", ident, variants]         variants: <<[ident, shape, *)
(*                                              tys]>>                     *)
(*   [item |-> "Impl", ...]  (see the interface generator)                 *)
(*   [item |-> "Other"]                                                    *)
(***************************************************************************)
Struct(ident, shape, named) ==
    [item |-> "Struct", ident |-> ident, shape |-> shape, named |-> named]
Field(ident, ty) == [ident |-> ident, ty |-> ty]
Enum(ident, variants) == [item |-> "Enum", ident |-> ident, variants |-> variants]
Variant(ident, shape, tys) == [ident |-> ident, shape |-> shape, tys |-> tys]

RECURSIVE FieldStrings(_, _, _)
\* the loop over fields.named
FieldStrings(named, i, field_strings) ==
    IF i > Len(named) THEN Ok(field_strings)
    ELSE LET v == validate_name(named[i].ident, "Field")
         IN  IF ~v.ok THEN v
             ELSE LET field_name == to_kebab_case(named[i].ident)
                      r == rust_type_to_wit(named[i].ty, {})
                  IN  IF ~r.ok THEN r
                      ELSE FieldStrings(named, i + 1,
                               Append(field_strings,
                                      "        " \o field_name \o ": " \o r.v.wit))

RECURSIVE VariantStrings(_, _, _)
\* the map over item_enum.variants, collected into a Result
VariantStrings(variants, i, acc) ==
    IF i > Len(variants) THEN Ok(acc)
    ELSE LET vr == variants[i]
             v == validate_name(vr.ident, "Enum variant")
         IN  IF ~v.ok THEN v
             ELSE IF vr.shape = "Unnamed" /\ Len(vr.tys) = 1
             THEN LET r == rust_type_to_wit(vr.tys[1], {})
                  IN  IF ~r.ok THEN r
                      ELSE VariantStrings(variants, i + 1,
                               Append(acc, "        " \o to_kebab_case(vr.ident)
                                           \o "(" \o r.v.wit \o ")"))
             ELSE VariantStrings(variants, i + 1,
                      Append(acc, "        " \o to_kebab_case(vr.ident)))

RecordText(name, fields) ==
    "    record " \o name \o " {\n" \o join(fields, ",\n") \o "\n    }"
VariantText(name, variants) ==
    "    variant " \o name \o " {\n" \o join(variants, ",\n") \o "\n    }"

\* one iteration of the loop over ast.items: the map after the item, or the
\* error that ends the collection
CollectItemKeepEmpty(type_defs, item) ==
    CASE item.item = "Struct" ->
            LET v == validate_name(item.ident, "Struct")
            IN  IF ~v.ok THEN v
                ELSE LET name == to_kebab_case(item.ident)
                         fields == IF item.shape = "Named"
                                   THEN FieldStrings(item.named, 1, <<>>)
                                   ELSE Ok(<<>>)
                     IN  IF ~fields.ok THEN fields
                         ELSE Ok(insert(type_defs, name, RecordText(name, fields.v)))
      [] item.item = "Enum" ->
            LET v == validate_name(item.ident, "Enum")
            IN  IF ~v.ok THEN v
                ELSE LET name == to_kebab_case(item.ident)
                         variants == VariantStrings(item.variants, 1, <<>>)
                     IN  IF ~variants.ok THEN variants
                         ELSE Ok(insert(type_defs, name, VariantText(name, variants.v)))
      [] OTHER -> Ok(type_defs)

CollectItem(type_defs, item) ==
    CASE item.item = "Struct" ->
            LET v == validate_name(item.ident, "Struct")
            IN  IF ~v.ok THEN v
                ELSE LET name == to_kebab_case(item.ident)
                         fields == IF item.shape = "Named"
                                   THEN FieldStrings(item.named, 1, <<>>)
                                   ELSE Ok(<<>>)
                     IN  IF ~fields.ok THEN fields
                         ELSE IF fields.v # <<>>
                         THEN Ok(insert(type_defs, name, RecordText(name, fields.v)))
                         ELSE Ok(type_defs)
      [] item.item = "Enum" ->
            LET v == validate_name(item.ident, "Enum")
            IN  IF ~v.ok THEN v
                ELSE LET name == to_kebab_case(item.ident)
                         variants == VariantStrings(item.variants, 1, <<>>)
                     IN  IF ~variants.ok THEN variants
                         ELSE Ok(insert(type_defs, name, VariantText(name, variants.v)))
      [] OTHER -> Ok(type_defs)

RECURSIVE CollectFrom(_, _, _)
CollectFrom(items, i, type_defs) ==
    IF i > Len(items) THEN Ok(type_defs)
    ELSE LET r == CollectItem(type_defs, items[i])
         IN  IF r.ok THEN CollectFrom(items, i + 1, r.v) ELSE r

collect_type_definitions(ast) == CollectFrom(ast, 1, EmptyMap)

(***************************************************************************)
(* Interface Generator.  An implementation block is                        *)
(*   [item |-> "Impl", attrs, self_ty, items]                              *)
(* with attrs a sequence of [path, wit_world] (wit_world: the literal      *)
(* that follows wit_world in the attribute, if any), and items a sequence  *)
(* of [kind |-> "Fn", ident, attrs, inputs, output] or [kind |-> "Other"]. *)
(* A method's attrs is the set of its attribute paths; an input is         *)
(* [arg |-> "Receiver"] or [arg |-> "Typed", pat, ident, ty] with pat      *)
(* "Ident" or "Other"; output is None or Some(type).                       *)
(***************************************************************************)
Attr(path, wit_world) == [path |-> path, wit_world |-> wit_world]
Impl(attrs, self_ty, items) ==
    [item |-> "Impl", attrs |-> attrs, self_ty |-> self_ty, items |-> items]
Fn(ident, attrs, inputs, output) ==
    [kind |-> "Fn", ident |-> ident, attrs |-> attrs, inputs |-> inputs,
     output |-> output]
Receiver == [arg |-> "Receiver"]
Typed(ident, ty) == [arg |-> "Typed", pat |-> "Ident", ident |-> ident, ty |-> ty]
TypedPattern(ty) == [arg |-> "Typed", pat |-> "Other", ident |-> "", ty |-> ty]

ExportMarkers == {"remote", "local", "http"}

has_relevant_attr_remote_only(method) == "remote" \in method.attrs

has_relevant_attr(method) ==
    "remote" \in method.attrs \/ "local" \in method.attrs \/ "http" \in method.attrs

RECURSIVE ParamsReversed(_, _, _, _)
ParamsReversed(inputs, i, params, used_types) ==
    IF i > Len(inputs) THEN Ok([params |-> params, used |-> used_types])
    ELSE LET a == inputs[i]
         IN  IF a.arg = "Typed" /\ a.pat = "Ident" /\ a.ident # "self"
             THEN LET v == validate_name(a.ident, "Parameter")
                  IN  IF ~v.ok THEN v
                      ELSE LET r == rust_type_to_wit(a.ty, used_types)
                           IN  IF ~r.ok THEN r
                               ELSE ParamsReversed(inputs, i + 1,
                                        <<to_kebab_case(a.ident) \o ": " \o r.v.wit>>
                                        \o params,
                                        r.v.used)
             ELSE ParamsReversed(inputs, i + 1, params, used_types)

RECURSIVE Params(_, _, _, _)
\* the filter_map over sig.inputs, collected into a Result
Params(inputs, i, params, used_types) ==
    IF i > Len(inputs) THEN Ok([params |-> params, used |-> used_types])
    ELSE LET a == inputs[i]
         IN  IF a.arg = "Typed" /\ a.pat = "Ident" /\ a.ident # "self"
             THEN LET v == validate_name(a.ident, "Parameter")
                  IN  IF ~v.ok THEN v
                      ELSE LET r == rust_type_to_wit(a.ty, used_types)
                           IN  IF ~r.ok THEN r
                               ELSE Params(inputs, i + 1,
                                        Append(params,
                                               to_kebab_case(a.ident) \o ": " \o r.v.wit),
                                        r.v.used)
             ELSE Params(inputs, i + 1, params, used_types)

AttrComments(method) ==
    (IF "remote" \in method.attrs THEN <<"    //remote">> ELSE <<>>)
    \o (IF "local" \in method.attrs THEN <<"    //local">> ELSE <<>>)
    \o (IF "http" \in method.attrs THEN <<"    //http">> ELSE <<>>)

\* the body of `if has_relevant_attr`: the rendered function and the
\* used_types set after it, or the first naming error
RenderMethod(method, used_types) ==
    LET v == validate_name(method.ident, "Function")
    IN  IF ~v.ok THEN v
        ELSE
        LET kebab_name == to_kebab_case(method.ident)
            ps == Params(method.inputs, 1, <<>>, used_types)
        IN  IF ~ps.ok THEN ps
            ELSE
            LET rt == IF is_some(method.output)
                      THEN rust_type_to_wit(unwrap(method.output), ps.v.used)
                      ELSE Mapped("unit", ps.v.used)
            IN  IF ~rt.ok THEN rt
                ELSE
                LET return_type == "result<" \o rt.v.wit \o ", string>"
                    attr_comments == AttrComments(method)
                    attr_comment_str ==
                        IF attr_comments # <<>>
                        THEN join(attr_comments, "\n") \o "\n" ELSE ""
                    func_sig ==
                        IF ps.v.params = <<>>
                        THEN attr_comment_str \o "    " \o kebab_name
                             \o ": func(target: address) -> " \o return_type \o ";"
                        ELSE attr_comment_str \o "    " \o kebab_name
                             \o ": func(target: address, " \o join(ps.v.params, ", ")
                             \o ") -> " \o return_type \o ";"
                IN  Ok([func_sig |-> func_sig, used |-> rt.v.used])

\* the keys of all_type_defs whose name occurs in the text of type_def and
\* that are not processed yet
ReferencedTypes(type_def, all_type_defs, processed_types) ==
    {referenced_type \in keys(all_type_defs) :
        contains(type_def, referenced_type) /\ referenced_type \notin processed_types}

\* every order in which a HashSet or the keys of a HashMap can be iterated
Orders(S) ==
    {q \in [1..Cardinality(S) -> S] : \A i, j \in 1..Cardinality(S) : q[i] = q[j] => i = j}

\* the final rendering of the interface
RenderInterface(interface_name, functions, type_defs) ==
    IF functions = <<>> THEN ""
    ELSE LET kebab_interface_name == to_kebab_case(remove_state_suffix(interface_name))
             combined_content ==
                 IF type_defs = <<>>
                 THEN "    use standard.{address};\n\n" \o join(functions, "\n")
                 ELSE "    use standard.{address};\n\n" \o join(type_defs, "\n\n")
                      \o "\n\n" \o join(functions, "\n")
         IN  "interface " \o kebab_interface_name \o " {\n" \o combined_content \o "\n}\n"

(***************************************************************************)
(* World Aggregator: text helpers of the manifest rewrite                  *)
(***************************************************************************)
Whitespace == {" ", "\t", "\n", "\r"}

\* the k-th smallest element of a finite set of numbers
KthSmallest(S, k) == CHOOSE x \in S : Cardinality({y \in S : y < x}) = k - 1

\* str::lines: the text between consecutive line feeds, a carriage return
\* before the line feed dropped; no last line after a final line feed
lines(s) ==
    LET feeds == {i \in 1..Len(s) : Char(s, i) = "\n"}
        breaks == {0} \cup feeds
                  \cup (IF s = "" \/ Len(s) \in feeds THEN {} ELSE {Len(s) + 1})
        line(k) ==
            LET from == KthSmallest(breaks, k) + 1
                to == KthSmallest(breaks, k + 1) - 1
            IN  IF to \in 1..Len(s) /\ Char(s, to) = "\r" /\ to + 1 \in feeds
                THEN SubSeq(s, from, to - 1) ELSE SubSeq(s, from, to)
    IN  [k \in 1..(Cardinality(breaks) - 1) |-> line(k)]

\* str::trim_start, str::trim_end, str::trim
trim_start(s) ==
    LET kept == {i \in 1..Len(s) : Char(s, i) \notin Whitespace}
    IN  IF kept = {} THEN "" ELSE SubSeq(s, KthSmallest(kept, 1), Len(s))

trim_end(s) ==
    LET kept == {i \in 1..Len(s) : Char(s, i) \notin Whitespace}
    IN  IF kept = {} THEN "" ELSE SubSeq(s, 1, KthSmallest(kept, Cardinality(kept)))

trim(s) == trim_end(trim_start(s))

\* str::split_whitespace, collected: the maximal runs of non-whitespace
split_whitespace(s) ==
    LET kept == {i \in 1..Len(s) : Char(s, i) \notin Whitespace}
        starts == {i \in kept : i - 1 \notin kept}
        ends == {i \in kept : i + 1 \notin kept}
    IN  [k \in 1..Cardinality(starts) |->
            SubSeq(s, KthSmallest(starts, k), KthSmallest(ends, k))]

\* Iterator::nth (zero-based)
nth(seq, n) == IF n + 1 <= Len(seq) THEN Some(seq[n + 1]) ELSE None

RECURSIVE trim_end_matches(_, _)
\* str::trim_end_matches: the pattern is removed from the end repeatedly
trim_end_matches(s, pat) ==
    IF pat # "" /\ ends_with(s, pat)
    THEN trim_end_matches(SubSeq(s, 1, Len(s) - Len(pat)), pat) ELSE s

RECURSIVE FindFrom(_, _)
\* lines.iter().find(|line| line.trim().starts_with("world "))
FindFrom(ls, i) ==
    IF i > Len(ls) THEN None
    ELSE IF starts_with(trim(ls[i]), "world ") THEN Some(ls[i])
    ELSE FindFrom(ls, i + 1)

find_world_line(ls) == FindFrom(ls, 1)

RECURSIVE LastDot(_, _)
LastDot(name, i) ==
    IF i = 0 THEN 0 ELSE IF Char(name, i) = "." THEN i ELSE LastDot(name, i - 1)

\* Path::extension of a file name: the text after the last dot, unless the
\* name has no dot or only begins with one
extension(name) ==
    LET d == LastDot(name, Len(name))
    IN  IF d <= 1 THEN None ELSE Some(SubSeq(name, d + 1, Len(name)))

WorldContent(world_name, world_exports) ==
    "world " \o world_name \o " {\n" \o join(world_exports, "\n")
    \o "\n    include process-v1;\n}"

default_world == "async-app-template-dot-os-v0"

\* the world name the rewrite of a file with this content uses: None when
\* the file is no world definition
ExtractWorldName(content) ==
    IF ~contains(content, "world ") THEN None
    ELSE LET world_line == find_world_line(lines(content))
         IN  IF ~is_some(world_line) THEN None
             ELSE LET world_name == nth(split_whitespace(trim(unwrap(world_line))), 1)
                  IN  IF ~is_some(world_name) THEN None
                      ELSE Some(trim_end_matches(unwrap(world_name), " {"))

(***************************************************************************)
(* State                                                                   *)
(***************************************************************************)
VARIABLES
    pc,                    \* where control is
    \* main
    projects,              \* find_rust_projects: the projects, in order
    next_project,          \* position of the loop over projects
    world_exports,
    world_names,
    api_dir,               \* the files of the api directory: name -> content
    walk,                  \* entries of the directory walk not visited yet
    outcome,               \* "running", then how the process exits
    events,                \* history: what the run did, in order
    \* process_rust_project
    ast,
    item_idx,              \* position of the loop over ast.items
    wit_world,
    interface_name,
    kebab_interface_name,
    \* generate_interface_wit_content and collect_type_definitions
    impl_item,
    method_idx,            \* position of the loop over impl_item.items
    functions,
    used_types,
    collect_idx,           \* position of the collector's loop over ast.items
    all_type_defs,
    type_defs,
    processed_types,
    types_to_process,
    gen_result,
    \* the naming helpers applied to one raw name
    raw_name,
    validated,
    kebabs,
    \* rust_type_to_wit applied to one type
    map_ty,                \* the argument ty of the call
    mapped

mainVars == <<projects, next_project, world_exports, world_names, api_dir, walk,
              outcome, events>>
projVars == <<ast, item_idx, wit_world, interface_name, kebab_interface_name>>
genVars == <<impl_item, method_idx, functions, used_types, collect_idx,
             all_type_defs, type_defs, processed_types, types_to_process, gen_result>>
nameVars == <<raw_name, validated, kebabs>>
mapVars == <<map_ty, mapped>>
vars == <<pc, mainVars, projVars, genVars, nameVars, mapVars>>

Event(ev, project, data) == [ev |-> ev, project |-> project, data |-> data]

NoImpl == Impl(<<>>, TOther, <<>>)

MainIdle ==
    /\ projects = <<>> /\ next_project = 1 /\ world_exports = <<>>
    /\ world_names = {} /\ api_dir = EmptyMap /\ walk = {}
    /\ outcome = "running" /\ events = <<>>
ProjIdle ==
    /\ ast = <<>> /\ item_idx = 1 /\ wit_world = None
    /\ interface_name = None /\ kebab_interface_name = None
GenIdle ==
    /\ impl_item = NoImpl /\ method_idx = 1 /\ functions = <<>> /\ used_types = {}
    /\ collect_idx = 1 /\ all_type_defs = EmptyMap /\ type_defs = <<>>
    /\ processed_types = {} /\ types_to_process = <<>> /\ gen_result = None
NameIdle == raw_name = "" /\ validated = None /\ kebabs = <<>>
MapIdle == map_ty = TOther /\ mapped = None

(***************************************************************************)
(* generate_interface_wit_content                                          *)
(***************************************************************************)
\* one iteration of the loop over impl_item.items
ExamineMethod ==
    /\ pc = "methods"
    /\ method_idx <= Len(impl_item.items)
    /\ LET method == impl_item.items[method_idx]
       IN  IF method.kind = "Fn" /\ has_relevant_attr(method)
           THEN LET r == RenderMethod(method, used_types)
                IN  IF r.ok
                    THEN /\ functions' = Append(functions, r.v.func_sig)
                         /\ used_types' = r.v.used
                         /\ method_idx' = method_idx + 1
                         /\ UNCHANGED <<pc, gen_result>>
                    ELSE /\ gen_result' = Some(r)
                         /\ pc' = "gen_return"
                         /\ UNCHANGED <<functions, used_types, method_idx>>
           ELSE /\ method_idx' = method_idx + 1
                /\ UNCHANGED <<pc, functions, used_types, gen_result>>
    /\ UNCHANGED <<impl_item, collect_idx, all_type_defs, type_defs,
                   processed_types, types_to_process>>
    /\ UNCHANGED <<mainVars, projVars, nameVars, mapVars>>

\* the methods are done: collect_type_definitions(ast) is entered
StartCollect ==
    /\ pc = "methods"
    /\ method_idx > Len(impl_item.items)
    /\ pc' = "collect"
    /\ collect_idx' = 1
    /\ all_type_defs' = EmptyMap
    /\ UNCHANGED <<impl_item, method_idx, functions, used_types, type_defs,
                   processed_types, types_to_process, gen_result>>
    /\ UNCHANGED <<mainVars, projVars, nameVars, mapVars>>

\* one iteration of the collector's loop over ast.items
CollectStep ==
    /\ pc = "collect"
    /\ collect_idx <= Len(ast)
    /\ LET r == CollectItem(all_type_defs, ast[collect_idx])
       IN  IF r.ok
           THEN /\ all_type_defs' = r.v
                /\ collect_idx' = collect_idx + 1
                /\ UNCHANGED <<pc, gen_result>>
           ELSE /\ gen_result' = Some(r)
                /\ pc' = "gen_return"
                /\ UNCHANGED <<all_type_defs, collect_idx>>
    /\ UNCHANGED <<impl_item, method_idx, functions, used_types, type_defs,
                   processed_types, types_to_process>>
    /\ UNCHANGED <<mainVars, projVars, nameVars, mapVars>>

\* the collector returns its map; the worklist is filled from used_types in
\* the set's iteration order
CollectReturn ==
    /\ pc = "collect"
    /\ collect_idx > Len(ast)
    /\ \E order \in Orders(used_types) : types_to_process' = order
    /\ type_defs' = <<>>
    /\ processed_types' = {}
    /\ pc' = "closure"
    /\ UNCHANGED <<impl_item, method_idx, functions, used_types, collect_idx,
                   all_type_defs, gen_result>>
    /\ UNCHANGED <<mainVars, projVars, nameVars, mapVars>>

\* the body of `while let Some(type_name) = types_to_process.pop()`: the
\* worklist, the processed set and the output after one iteration, the
\* referenced types pushed in the order push_order
ClosureIterationNoSkip(stack, processed, out, defs, push_order) ==
    LET type_name == stack[Len(stack)]
        rest == SubSeq(stack, 1, Len(stack) - 1)
    IN  IF type_name \in DOMAIN defs
        THEN [stack |-> rest \o push_order, processed |-> processed \cup {type_name},
              out |-> Append(out, defs[type_name])]
        ELSE [stack |-> rest, processed |-> processed \cup {type_name}, out |-> out]

ClosureIterationNoPush(stack, processed, out, defs, push_order) ==
    LET type_name == stack[Len(stack)]
        rest == SubSeq(stack, 1, Len(stack) - 1)
    IN  IF type_name \in processed
        THEN [stack |-> rest, processed |-> processed, out |-> out]
        ELSE IF type_name \in DOMAIN defs
        THEN [stack |-> rest, processed |-> processed \cup {type_name},
              out |-> Append(out, defs[type_name])]
        ELSE [stack |-> rest, processed |-> processed \cup {type_name}, out |-> out]

ClosureIteration(stack, processed, out, defs, push_order) ==
    LET type_name == stack[Len(stack)]
        rest == SubSeq(stack, 1, Len(stack) - 1)
    IN  IF type_name \in processed
        THEN [stack |-> rest, processed |-> processed, out |-> out]
        ELSE IF type_name \in DOMAIN defs
        THEN [stack |-> rest \o push_order, processed |-> processed \cup {type_name},
              out |-> Append(out, defs[type_name])]
        ELSE [stack |-> rest, processed |-> processed \cup {type_name}, out |-> out]

\* the types the iteration that pops type_name pushes
PushedDependents(type_name, processed, defs) ==
    IF type_name \notin processed /\ type_name \in DOMAIN defs
    THEN {k \in keys(defs) :
             contains(defs[k], type_name) /\ k \notin processed \cup {type_name}}
    ELSE {}

Pushed(type_name, processed, defs) ==
    IF type_name \notin processed /\ type_name \in DOMAIN defs
    THEN ReferencedTypes(defs[type_name], defs, processed \cup {type_name})
    ELSE {}

ClosureStep ==
    /\ pc = "closure"
    /\ types_to_process # <<>>
    /\ \E push_order \in Orders(Pushed(types_to_process[Len(types_to_process)],
                                       processed_types, all_type_defs)) :
          LET n == ClosureIteration(types_to_process, processed_types, type_defs,
                                    all_type_defs, push_order)
          IN  /\ types_to_process' = n.stack
              /\ processed_types' = n.processed
              /\ type_defs' = n.out
    /\ UNCHANGED <<pc, impl_item, method_idx, functions, used_types, collect_idx,
                   all_type_defs, gen_result>>
    /\ UNCHANGED <<mainVars, projVars, nameVars, mapVars>>

\* the worklist is empty: the interface is rendered and returned
Render ==
    /\ pc = "closure"
    /\ types_to_process = <<>>
    /\ gen_result' = Some(Ok(RenderInterface(unwrap(interface_name), functions, type_defs)))
    /\ pc' = "gen_return"
    /\ UNCHANGED <<impl_item, method_idx, functions, used_types, collect_idx,
                   all_type_defs, type_defs, processed_types, types_to_process>>
    /\ UNCHANGED <<mainVars, projVars, nameVars, mapVars>>

(***************************************************************************)
(* main and process_rust_project                                           *)
(***************************************************************************)
\* extract_wit_world: the literal found after wit_world in the attribute
extract_wit_world(attr) ==
    IF attr.path = "hyperprocess" /\ is_some(attr.wit_world)
    THEN Ok(unwrap(attr.wit_world))
    ELSE Err(Failure("wit_world not found in hyperprocess attribute"))

\* impl_item.attrs.iter().find(|attr| attr.path().is_ident("hyperprocess"))
find_hyperprocess(attrs) ==
    IF \E i \in 1..Len(attrs) : attrs[i].path = "hyperprocess"
    THEN Some(attrs[CHOOSE i \in 1..Len(attrs) :
                        /\ attrs[i].path = "hyperprocess"
                        /\ \A j \in 1..(i - 1) : attrs[j].path # "hyperprocess"])
    ELSE None

ExportStatement(kebab_iface) == "    export " \o kebab_iface \o ";"

\* main's match on what process_rust_project returned for the current
\* project, with the history `log` of the step so far
MainMatchAbort(result, log) ==
    /\ world_exports' = IF result.ok /\ is_some(result.v)
                        THEN Append(world_exports, unwrap(result.v))
                        ELSE world_exports
    /\ events' = Append(log, Event("result", next_project, result))
    /\ next_project' = next_project + 1
    /\ pc' = IF result.ok THEN "projects" ELSE "exit"
    /\ outcome' = IF result.ok THEN outcome ELSE "failure"

MainMatch(result, log) ==
    /\ world_exports' = IF result.ok /\ is_some(result.v)
                        THEN Append(world_exports, unwrap(result.v))
                        ELSE world_exports
    /\ events' = Append(log, Event("result", next_project, result))
    /\ next_project' = next_project + 1
    /\ pc' = "projects"
    /\ outcome' = outcome

\* main up to the loop over the projects
MainStart ==
    /\ pc = "main"
    /\ world_exports' = <<>>
    /\ world_names' = {}
    /\ IF projects = <<>>
       THEN pc' = "exit" /\ outcome' = "success"
       ELSE pc' = "projects" /\ outcome' = outcome
    /\ UNCHANGED <<projects, next_project, api_dir, walk, events>>
    /\ UNCHANGED <<projVars, genVars, nameVars, mapVars>>

\* the loop takes the next project; process_rust_project reads and parses
\* its lib.rs
BeginProject ==
    /\ pc = "projects"
    /\ next_project <= Len(projects)
    /\ LET p == projects[next_project]
           log == Append(events, Event("begin", next_project, p.lib))
       IN  IF p.lib = "missing"
           THEN MainMatch(Ok(None), log) /\ UNCHANGED projVars
           ELSE IF p.lib # "ok"
           THEN MainMatch(Err(Failure("Failed to read or parse lib.rs")), log)
                /\ UNCHANGED projVars
           ELSE /\ ast' = p.ast
                /\ item_idx' = 1
                /\ wit_world' = None
                /\ interface_name' = None
                /\ kebab_interface_name' = None
                /\ events' = log
                /\ pc' = "scan"
                /\ UNCHANGED <<world_exports, next_project, outcome>>
    /\ UNCHANGED <<projects, world_names, api_dir, walk>>
    /\ UNCHANGED <<genVars, nameVars, mapVars>>

\* one iteration of the loop over ast.items, up to the call of
\* generate_interface_wit_content
ScanItem ==
    /\ pc = "scan"
    /\ item_idx <= Len(ast)
    /\ LET item == ast[item_idx]
           attr == IF item.item = "Impl" THEN find_hyperprocess(item.attrs) ELSE None
           world == IF is_some(attr) THEN extract_wit_world(unwrap(attr))
                    ELSE Err(Failure("no hyperprocess attribute"))
           name == IF item.self_ty.t = "Path" THEN Some(item.self_ty.ident) ELSE None
           v == validate_name(unwrap(name), "Interface")
       IN  IF ~world.ok
           THEN /\ item_idx' = item_idx + 1
                /\ UNCHANGED <<pc, wit_world, interface_name, kebab_interface_name,
                               world_exports, next_project, outcome, events, genVars>>
           ELSE IF ~is_some(name)
           THEN /\ wit_world' = Some(world.v)
                /\ interface_name' = None
                /\ item_idx' = item_idx + 1
                /\ UNCHANGED <<pc, kebab_interface_name,
                               world_exports, next_project, outcome, events, genVars>>
           ELSE IF ~v.ok
           THEN /\ wit_world' = Some(world.v)
                /\ interface_name' = name
                /\ MainMatch(v, events)
                /\ UNCHANGED <<item_idx, kebab_interface_name, genVars>>
           ELSE /\ wit_world' = Some(world.v)
                /\ interface_name' = name
                /\ kebab_interface_name' =
                       Some(to_kebab_case(remove_state_suffix(unwrap(name))))
                /\ impl_item' = item
                /\ method_idx' = 1
                /\ functions' = <<>>
                /\ used_types' = {}
                /\ gen_result' = None
                /\ collect_idx' = 1
                /\ all_type_defs' = EmptyMap
                /\ type_defs' = <<>>
                /\ processed_types' = {}
                /\ types_to_process' = <<>>
                /\ pc' = "methods"
                /\ UNCHANGED <<item_idx, world_exports, next_project, outcome, events>>
    /\ UNCHANGED <<ast, projects, world_names, api_dir, walk>>
    /\ UNCHANGED <<nameVars, mapVars>>

\* the generator has returned: its error ends the project, its content is
\* written unless it is empty
AfterGenerate ==
    /\ pc = "gen_return"
    /\ LET r == unwrap(gen_result)
           interface_file == unwrap(kebab_interface_name) \o ".wit"
       IN  IF ~r.ok
           THEN MainMatch(r, events) /\ UNCHANGED <<api_dir, item_idx>>
           ELSE /\ IF r.v # ""
                   THEN /\ api_dir' = insert(api_dir, interface_file, r.v)
                        /\ events' = Append(events,
                                         Event("interface", next_project, interface_file))
                   ELSE UNCHANGED <<api_dir, events>>
                /\ item_idx' = item_idx + 1
                /\ pc' = "scan"
                /\ UNCHANGED <<world_exports, next_project, outcome>>
    /\ UNCHANGED <<ast, wit_world, interface_name, kebab_interface_name>>
    /\ UNCHANGED <<projects, world_names, walk>>
    /\ UNCHANGED <<genVars, nameVars, mapVars>>

\* the end of process_rust_project: the export statement, if any
ProjectReturn ==
    /\ pc = "scan"
    /\ item_idx > Len(ast)
    /\ IF is_some(wit_world) /\ is_some(interface_name) /\ is_some(kebab_interface_name)
       THEN MainMatch(Ok(Some(ExportStatement(unwrap(kebab_interface_name)))), events)
       ELSE MainMatch(Ok(None), events)
    /\ UNCHANGED <<projects, world_names, api_dir, walk>>
    /\ UNCHANGED <<projVars, genVars, nameVars, mapVars>>

\* the projects are done: the walk over the api directory starts
StartWalkEarly ==
    /\ pc = "projects"
    /\ next_project > 1
    /\ walk' = DOMAIN api_dir
    /\ events' = Append(events, Event("walk", 0, api_dir))
    /\ pc' = "walk"
    /\ UNCHANGED <<projects, next_project, world_exports, world_names, api_dir,
                   outcome>>
    /\ UNCHANGED <<projVars, genVars, nameVars, mapVars>>

StartWalk ==
    /\ pc = "projects"
    /\ next_project > Len(projects)
    /\ walk' = DOMAIN api_dir
    /\ events' = Append(events, Event("walk", 0, api_dir))
    /\ pc' = "walk"
    /\ UNCHANGED <<projects, next_project, world_exports, world_names, api_dir,
                   outcome>>
    /\ UNCHANGED <<projVars, genVars, nameVars, mapVars>>

\* the content a world definition file is rewritten with
UpdatedWorldMerge(content, exports) ==
    LET clean_name == ExtractWorldName(content)
    IN  IF is_some(clean_name)
        THEN Some(content \o "\n" \o WorldContent(unwrap(clean_name), exports))
        ELSE None

UpdatedWorld(content, exports) ==
    LET clean_name == ExtractWorldName(content)
    IN  IF is_some(clean_name) THEN Some(WorldContent(unwrap(clean_name), exports))
        ELSE None

\* one entry of the walk
VisitEntry ==
    /\ pc = "walk"
    /\ \E path \in walk :
          /\ walk' = walk \ {path}
          /\ LET updated == UpdatedWorld(api_dir[path], world_exports)
             IN  IF extension(path) = Some("wit") /\ is_some(updated)
                 THEN /\ world_names' =
                             world_names \cup {unwrap(ExtractWorldName(api_dir[path]))}
                      /\ api_dir' = insert(api_dir, path, unwrap(updated))
                      /\ events' = Append(events, Event("manifest", 0, path))
                 ELSE UNCHANGED <<world_names, api_dir, events>>
    /\ UNCHANGED <<pc, projects, next_project, world_exports, outcome>>
    /\ UNCHANGED <<projVars, genVars, nameVars, mapVars>>

\* whether the default world is created
NeedsDefaultWithoutNames(names, exports) == names = {}

NeedsDefault(names, exports) == names = {} /\ exports # <<>>

\* after the walk: the default world, and the end of main
DefaultWorld ==
    /\ pc = "walk"
    /\ walk = {}
    /\ IF NeedsDefault(world_names, world_exports)
       THEN LET world_file == default_world \o ".wit"
            IN  /\ api_dir' = insert(api_dir, world_file,
                                     WorldContent(default_world, world_exports))
                /\ events' = Append(events, Event("default", 0, world_file))
       ELSE UNCHANGED <<api_dir, events>>
    /\ pc' = "exit"
    /\ outcome' = "success"
    /\ UNCHANGED <<projects, next_project, world_exports, world_names, walk>>
    /\ UNCHANGED <<projVars, genVars, nameVars, mapVars>>

(***************************************************************************)
(* The naming helpers applied to one raw name                              *)
(***************************************************************************)
NameKinds == {"Type", "Struct", "Field", "Enum", "Enum variant", "Function",
              "Parameter", "Interface"}

ValidateName ==
    /\ pc = "name"
    /\ validated = None
    /\ \E kind \in NameKinds :
          validated' = Some([kind |-> kind, result |-> validate_name(raw_name, kind)])
    /\ UNCHANGED <<pc, raw_name, kebabs>>
    /\ UNCHANGED <<mainVars, projVars, genVars, mapVars>>

\* to_kebab_case applied to the raw name, then to its own output
Normalize ==
    /\ pc = "name"
    /\ Len(kebabs) < 2
    /\ kebabs' = Append(kebabs, to_kebab_case(IF kebabs = <<>> THEN raw_name
                                              ELSE kebabs[Len(kebabs)]))
    /\ UNCHANGED <<pc, raw_name, validated>>
    /\ UNCHANGED <<mainVars, projVars, genVars, mapVars>>

\* one call of rust_type_to_wit, with the caller's used_types
MapType ==
    /\ pc = "map"
    /\ mapped = None
    /\ LET r == rust_type_to_wit(map_ty, used_types)
       IN  /\ mapped' = Some(r)
           /\ used_types' = IF r.ok THEN r.v.used ELSE used_types
    /\ UNCHANGED <<pc, map_ty, impl_item, method_idx, functions, collect_idx,
                   all_type_defs, type_defs, processed_types, types_to_process,
                   gen_result>>
    /\ UNCHANGED <<mainVars, projVars, nameVars>>

(***************************************************************************)
(* Inputs                                                                  *)
(***************************************************************************)
MaxProjects == 2
MaxNameTokens == 3
MaxDecls == 3
MaxMethods == 2

\* every sequence of at most n elements of S
SeqUpTo(S, n) == UNION {[1..k -> S] : k \in 0..n}

\* raw names: at most MaxNameTokens of these pieces, concatenated
NameTokens == {"st", "ST", "ream", "Ream", "x", "Y", "_", "7", "-"}

RawNames == {join(q, "") : q \in SeqUpTo(NameTokens, MaxNameTokens)}

Hyper == Attr("hyperprocess", Some("app"))

\* declarations
LineItem == Struct("LineItem", "Named", <<Field("quantity", TPath("u32"))>>)
Cart == Struct("Cart", "Named",
               <<Field("items", TGeneric("Vec", TPath("LineItem"))),
                 Field("owner", TGeneric("Option", TPath("User")))>>)
User == Enum("User", <<Variant("Guest", "Unit", <<>>),
                       Variant("Member", "Unnamed", <<TRef(TPath("Cart"))>>)>>)
Node == Struct("Node", "Named", <<Field("next", TGeneric("Option", TPath("Node")))>>)
Pair == Enum("Pair", <<Variant("Both", "Unnamed", <<TPath("Node"), TPath("Cart")>>)>>)
Marker == Struct("Marker", "Unit", <<>>)
Item == Struct("Item", "Named", <<Field("id", TPath("u64"))>>)

\* methods
OrderTotal == Fn("order_total", {"remote"},
                 <<Receiver, Typed("item", TPath("LineItem"))>>, Some(TPath("bool")))
GetCart == Fn("getCart", {"local", "http"}, <<Receiver>>, Some(TPath("Cart")))
Helper == Fn("helper_v2", {"inline"},
             <<Receiver, Typed("stream", TPath("Chunk9"))>>, Some(TPath("Item")))
Lookup == Fn("lookup", {"http"},
             <<Receiver, Typed("pair", TPath("Pair")), TypedPattern(TPath("Art")),
               Typed("key", TTuple(<<TPath("String"), TRef(TPath("Node"))>>))>>,
             None)
Upload == Fn("upload", {"remote"},
             <<Receiver, Typed("data_stream", TGeneric("Vec", TPath("u32")))>>, None)
Ship == Fn("ship", {"remote"}, <<Receiver, Typed("what", TPath("Parcel"))>>,
           Some(TPath("Marker")))

Checkout == Fn("checkout", {"local"},
               <<Receiver, Typed("cart", TPath("Cart")), Typed("user", TPath("User"))>>,
               Some(TGeneric("Vec", TPath("LineItem"))))
Art == Struct("Art", "Named", <<Field("title", TPath("String"))>>)

\* projects
Project(lib, items) == [lib |-> lib, ast |-> items]

ProjOrder == Project("ok", <<LineItem, Impl(<<Hyper>>, TPath("OrderState"), <<OrderTotal>>)>>)
ProjShop ==
    Project("ok", <<Cart, User, LineItem,
                    Impl(<<Hyper>>, TPath("ShopState"), <<Helper, GetCart>>)>>)
ProjHelper == Project("ok", <<Item, Impl(<<Hyper>>, TPath("HelperState"), <<Helper>>)>>)
ProjUpload == Project("ok", <<Impl(<<Hyper>>, TPath("UploadState"), <<Upload>>)>>)
ProjMissing == Project("missing", <<>>)
ProjBroken == Project("unparseable", <<>>)
ProjTwo ==
    Project("ok", <<Impl(<<Attr("derive", None), Hyper>>, TPath("AlphaState"), <<Ship>>),
                    Impl(<<Attr("hyperprocess", None)>>, TPath("Gamma"), <<Ship>>),
                    Impl(<<Hyper>>, TPath("Beta2"), <<Ship>>)>>)
ProjTuple ==
    Project("ok", <<Node, Impl(<<Hyper>>, TTuple(<<>>), <<Lookup>>),
                    Impl(<<>>, TPath("Plain"), <<[kind |-> "Other"], Lookup>>),
                    Impl(<<Hyper>>, TPath("Plain"), <<[kind |-> "Other"], Lookup>>)>>)

ProjBlocks ==
    Project("ok", <<LineItem, Impl(<<Hyper>>, TPath("OrderState"), <<OrderTotal>>),
                    Impl(<<Hyper>>, TPath("ShipState"), <<Ship>>)>>)

ProjectCatalogue == {ProjOrder, ProjShop, ProjHelper, ProjUpload, ProjMissing,
                     ProjBroken, ProjTwo, ProjTuple, ProjBlocks}

\* api directories the run may start with
File(name, content) == [k \in {name} |-> content]

ApiDirs ==
    { EmptyMap,
      File("app.wit", "world app {\n    import old;\n    include process-v1;\n}"),
      File("app.wit", "// generated\nworld app{\n    import old;\n}\n"),
      insert(File("one.wit", "  world one {\n}"), "two.wit", "world two  {\n export x;\n}"),
      File("notes.txt", "world notes {\n}"),
      File("order.wit", "world order {\n    export order;\n}"),
      File("old.wit", "interface old {\n    // hello world \n}\n") }

(***************************************************************************)
(* Specifications                                                          *)
(***************************************************************************)
\* a whole run of main
Init ==
    /\ pc = "main"
    /\ projects \in SeqUpTo(ProjectCatalogue, MaxProjects)
    /\ api_dir \in ApiDirs
    /\ next_project = 1 /\ world_exports = <<>> /\ world_names = {} /\ walk = {}
    /\ outcome = "running" /\ events = <<>>
    /\ ProjIdle /\ GenIdle /\ NameIdle /\ MapIdle

Next ==
    \/ MainStart
    \/ BeginProject
    \/ ScanItem
    \/ ExamineMethod
    \/ StartCollect
    \/ CollectStep
    \/ CollectReturn
    \/ ClosureStep
    \/ Render
    \/ AfterGenerate
    \/ ProjectReturn
    \/ StartWalk
    \/ VisitEntry
    \/ DefaultWorld

Spec == Init /\ [][Next]_vars

\* the naming helpers on every raw name
InitNames ==
    /\ pc = "name"
    /\ raw_name \in RawNames
    /\ validated = None /\ kebabs = <<>>
    /\ MainIdle /\ ProjIdle /\ GenIdle /\ MapIdle

NextNames == ValidateName \/ Normalize

SpecNames == InitNames /\ [][NextNames]_vars

\* one call of generate_interface_wit_content
MethodCatalogue ==
    {GetCart, Helper, Lookup, Upload, Checkout}

DeclPool == <<LineItem, Cart, User, Node, Pair, Art>>

RECURSIVE Pick(_, _, _)
\* the declarations of DeclPool at the positions in `chosen`, in file order
Pick(pool, chosen, i) ==
    IF i > Len(pool) THEN <<>>
    ELSE (IF i \in chosen THEN <<pool[i]>> ELSE <<>>) \o Pick(pool, chosen, i + 1)

AstCatalogue ==
    {Pick(DeclPool, chosen, 1) :
        chosen \in {c \in SUBSET (1..Len(DeclPool)) : Cardinality(c) <= MaxDecls}}

InitGen ==
    /\ pc = "methods"
    /\ ast \in AstCatalogue
    /\ \E methods \in SeqUpTo(MethodCatalogue, MaxMethods) :
          impl_item = Impl(<<Hyper>>, TPath("ShopState"), methods)
    /\ interface_name = Some("ShopState")
    /\ kebab_interface_name = Some("shop")
    /\ wit_world = Some("app")
    /\ item_idx = 1
    /\ method_idx = 1 /\ functions = <<>> /\ used_types = {}
    /\ collect_idx = 1 /\ all_type_defs = EmptyMap /\ type_defs = <<>>
    /\ processed_types = {} /\ types_to_process = <<>> /\ gen_result = None
    /\ MainIdle /\ NameIdle /\ MapIdle

NextGen ==
    \/ ExamineMethod
    \/ StartCollect
    \/ CollectStep
    \/ CollectReturn
    \/ ClosureStep
    \/ Render

SpecGen == InitGen /\ [][NextGen]_vars

\* the closure loop is a loop of a sequential program: while it can take an
\* iteration it takes one, and when the worklist is empty it goes on to render
FairSpecGen == SpecGen /\ WF_vars(ClosureStep) /\ WF_vars(Render)

\* one call of collect_type_definitions
DeclCatalogue ==
    { Struct("OrderItem", "Named", <<Field("id", TPath("u64"))>>),
      Struct("order_item", "Named", <<>>),
      Struct("Order_Item", "Unnamed", <<>>),
      Enum("OrderItem", <<>>),
      Enum("Status", <<Variant("Active", "Unit", <<>>),
                       Variant("OnHold", "Unnamed", <<TPath("OrderItem")>>)>>),
      Struct("Status", "Unit", <<>>),
      Struct("Log7", "Named", <<Field("line", TPath("String"))>>),
      Enum("Mode", <<Variant("UpStream", "Unit", <<>>)>>),
      [item |-> "Other"] }

InitCollect ==
    /\ pc = "collect"
    /\ ast \in SeqUpTo(DeclCatalogue, MaxDecls)
    /\ item_idx = 1 /\ wit_world = None
    /\ interface_name = None /\ kebab_interface_name = None
    /\ GenIdle /\ MainIdle /\ NameIdle /\ MapIdle

NextCollect == CollectStep \/ CollectReturn

SpecCollect == InitCollect /\ [][NextCollect]_vars

\* one call of rust_type_to_wit
MaxTypeDepth == 1

TypeLeaves ==
    {TPath(n) : n \in PrimitiveNames \cup {"Cart", "LineItem", "OrderItem"}}

RECURSIVE TypesUpTo(_)
\* the type expressions nested at most d deep
TypesUpTo(d) ==
    IF d = 0 THEN TypeLeaves
    ELSE LET T == TypesUpTo(d - 1)
         IN  T \cup {TGeneric("Vec", t) : t \in T}
               \cup {TGeneric("Option", t) : t \in T}
               \cup {TRef(t) : t \in T}
               \cup {TTuple(<<>>), TOther}
               \cup {TTuple(<<a, b>>) : a \in TypeLeaves, b \in T}

InitMap ==
    /\ pc = "map"
    /\ map_ty \in TypesUpTo(MaxTypeDepth)
    /\ mapped = None
    /\ impl_item = NoImpl /\ method_idx = 1 /\ functions = <<>>
    /\ used_types \in SUBSET {"cart", "user"}
    /\ collect_idx = 1 /\ all_type_defs = EmptyMap /\ type_defs = <<>>
    /\ processed_types = {} /\ types_to_process = <<>> /\ gen_result = None
    /\ MainIdle /\ ProjIdle /\ NameIdle

NextMap == MapType

SpecMap == InitMap /\ [][NextMap]_vars

(***************************************************************************)
(* Properties                                                              *)
(***************************************************************************)
HasDecimalDigit(name) ==
    \E i \in 1..Len(name) :
        Char(name, i) \in {"0", "1", "2", "3", "4", "5", "6", "7", "8", "9"}

HasStreamAnyCase(name) ==
    \E i \in 1..Len(name) :
        /\ i + 5 <= Len(name)
        /\ Char(name, i) \in {"s", "S"}
        /\ Char(name, i + 1) \in {"t", "T"}
        /\ Char(name, i + 2) \in {"r", "R"}
        /\ Char(name, i + 3) \in {"e", "E"}
        /\ Char(name, i + 4) \in {"a", "A"}
        /\ Char(name, i + 5) \in {"m", "M"}

\* C3: whatever the category label, validate_name fails exactly on the raw
\* names that hold a decimal digit or "stream" in any casing, and its error
\* carries the raw name and the label
C3_ValidateIffDigitOrStream ==
    (pc = "name" /\ is_some(validated)) =>
        LET r == unwrap(validated).result
        IN  /\ ~r.ok <=> (HasDecimalDigit(raw_name) \/ HasStreamAnyCase(raw_name))
            /\ ~r.ok => (r.e.name = raw_name /\ r.e.kind = unwrap(validated).kind)

\* a name that is refused only because of a mixed-case "stream"
C3_Witness ==
    /\ pc = "name" /\ is_some(validated)
    /\ ~unwrap(validated).result.ok
    /\ ~HasDecimalDigit(raw_name)
    /\ ~contains(raw_name, "stream")
    /\ unwrap(validated).kind = "Enum variant"

HasUnderscore(name) == \E i \in 1..Len(name) : Char(name, i) = "_"
HasUpper(name) == \E i \in 1..Len(name) : Char(name, i) \in UpperChars
LowerHyphenOnly(name) ==
    \A i \in 1..Len(name) : Char(name, i) \in LowerChars \cup {"-"}

\* C4 as stated: normalising twice gives what normalising once gives, for
\* every raw name, and lowercase-hyphen names are returned unchanged
C4_Original ==
    /\ (pc = "name" /\ Len(kebabs) = 2) => kebabs[2] = kebabs[1]
    /\ (pc = "name" /\ Len(kebabs) >= 1 /\ LowerHyphenOnly(raw_name)) =>
           kebabs[1] = raw_name

\* C4 as amended: normalising twice equals normalising once exactly for the
\* raw names that have no underscore or no uppercase letter, and
\* lowercase-hyphen names are returned unchanged
C4_IdempotentUnlessUnderscoreAndUpper ==
    /\ (pc = "name" /\ Len(kebabs) = 2) =>
           (kebabs[2] = kebabs[1] <=> ~(HasUnderscore(raw_name) /\ HasUpper(raw_name)))
    /\ (pc = "name" /\ Len(kebabs) >= 1 /\ LowerHyphenOnly(raw_name)) =>
           kebabs[1] = raw_name

\* a mixed-case name without underscore, normalised twice
C4_Witness ==
    /\ pc = "name" /\ Len(kebabs) = 2
    /\ HasUpper(raw_name) /\ ~HasUnderscore(raw_name)
    /\ contains(kebabs[1], "-") /\ ~contains(raw_name, "-")
    /\ kebabs[2] = kebabs[1]

\* history: the positions of the events of one kind
EventsOf(ev) == {k \in 1..Len(events) : events[k].ev = ev}

\* history: main logged a naming-policy violation at position k
ViolationAt(k) ==
    /\ events[k].ev = "result"
    /\ ~events[k].data.ok
    /\ events[k].data.e.rule \in {"numbers", "stream"}

RECURSIVE YieldedFrom(_)
\* history: the export statements process_rust_project returned, in order
YieldedFrom(k) ==
    IF k > Len(events) THEN <<>>
    ELSE (IF events[k].ev = "result" /\ events[k].data.ok /\ events[k].data.v # <<>>
          THEN <<events[k].data.v[1]>> ELSE <<>>) \o YieldedFrom(k + 1)

Yielded == YieldedFrom(1)

\* C1 as stated: after a naming-policy violation no project is begun, no
\* manifest is written, and the run ends with an error outcome
C1_Original ==
    \A k \in 1..Len(events) :
        ViolationAt(k) =>
            /\ \A j \in (k + 1)..Len(events) :
                   events[j].ev \notin {"begin", "manifest", "default"}
            /\ pc = "exit" => outcome = "failure"

\* C1 as amended: a naming-policy violation ends the processing of its
\* project only.  That project yields no export statement, every later
\* project is still begun, the manifests are written afterwards from the
\* export statements of the other projects, and the run ends with success
C1_ViolationSkipsProjectOnly ==
    \A k \in 1..Len(events) :
        ViolationAt(k) =>
            LET i == events[k].project
            IN  /\ \A j \in (k + 1)..Len(events) : events[j].project # i
                /\ \A j \in EventsOf("result") :
                       events[j].project = i => ~events[j].data.ok
                /\ Len(world_exports) <= Cardinality(EventsOf("result")) - 1
                /\ pc = "exit" =>
                       /\ outcome = "success"
                       /\ \A n \in 1..Len(projects) :
                              \E j \in EventsOf("begin") : events[j].project = n
                       /\ world_exports # <<>> =>
                              \E j \in (k + 1)..Len(events) :
                                  events[j].ev \in {"manifest", "default"}

\* a run that ended after a violation in its first project, with an export
\* statement of its second project in a rewritten manifest
C1_Witness ==
    /\ pc = "exit"
    /\ Len(projects) = 2
    /\ \E k \in 1..Len(events) : ViolationAt(k) /\ events[k].project = 1
    /\ Len(world_exports) = 1
    /\ EventsOf("manifest") # {}

\* a project with annotated implementation blocks none of which has a method
\* with an export marker
AnnotatedImpl(item) ==
    /\ item.item = "Impl"
    /\ \E a \in 1..Len(item.attrs) :
           item.attrs[a].path = "hyperprocess" /\ item.attrs[a].wit_world # <<>>
NoExportedMethod(p) ==
    /\ p.lib = "ok"
    /\ \E n \in 1..Len(p.ast) : AnnotatedImpl(p.ast[n])
    /\ \A n \in 1..Len(p.ast) :
           AnnotatedImpl(p.ast[n]) =>
               \A m \in 1..Len(p.ast[n].items) :
                   p.ast[n].items[m].kind = "Fn" =>
                       p.ast[n].items[m].attrs \cap {"remote", "local", "http"} = {}

\* C2: a project whose annotated implementation block has no exported method
\* gets no interface file written and returns no export statement
C2_NoExportWithoutMethods ==
    \A k \in EventsOf("interface") \cup EventsOf("result") :
        NoExportedMethod(projects[events[k].project]) =>
            /\ events[k].ev # "interface"
            /\ events[k].ev = "result" => events[k].data = Ok(None)

\* the files the aggregator wrote, by their events
ManifestEvents == EventsOf("manifest") \cup EventsOf("default")

\* C9: at the end of a run whose projects yielded e1..en, every manifest the
\* aggregator wrote is its header line, then e1..en in that order, one per
\* line, then the include line and the closing brace, and nothing else
C9_ManifestBodyIsExports ==
    pc = "exit" =>
        \A k \in ManifestEvents :
            LET text == api_dir[events[k].data]
                header == lines(text)[1]
            IN  /\ starts_with(header, "world ") /\ ends_with(header, " {")
                /\ text = header \o "\n" \o join(Yielded, "\n")
                          \o "\n    include process-v1;\n}"

\* a finished run of two projects that yielded two export statements and
\* rewrote a manifest that held other lines before
C9_Witness ==
    /\ pc = "exit"
    /\ Len(Yielded) = 2 /\ Yielded[1] # Yielded[2]
    /\ \E k \in EventsOf("manifest") :
           /\ events[k].data = "app.wit"
           /\ \E w \in EventsOf("walk") :
                  contains(events[w].data["app.wit"], "import old;")

\* a manifest file: a .wit file with a line that starts, after trimming,
\* with "world "
IsManifestFile(name, content) ==
    /\ Len(name) > 4 /\ ends_with(name, ".wit")
    /\ LET ls == lines(content)
       IN  \E n \in 1..Len(ls) : starts_with(trim(ls[n]), "world ")

\* history: the api directory when the aggregation began
ManifestsAtAggregation ==
    UNION {{f \in DOMAIN events[w].data : IsManifestFile(f, events[w].data[f])} :
              w \in EventsOf("walk")}

\* C10: a finished run created the default manifest exactly when the
\* aggregation found no manifest file and at least one export statement was
\* collected; it is created at most once and under the fixed name
C10_DefaultIffNoManifest ==
    /\ Cardinality(EventsOf("default")) <= 1
    /\ \A k \in EventsOf("default") : events[k].data = "async-app-template-dot-os-v0.wit"
    /\ pc = "exit" =>
           (EventsOf("default") # {}
               <=> (EventsOf("walk") # {} /\ ManifestsAtAggregation = {} /\ Yielded # <<>>))

\* a finished run that created the default manifest beside a .wit file that
\* is no manifest
C10_Witness ==
    /\ pc = "exit"
    /\ EventsOf("default") # {}
    /\ "old.wit" \in DOMAIN api_dir
    /\ "async-app-template-dot-os-v0.wit" \in DOMAIN api_dir

\* C5: the closure loop appends no declaration twice and, once entered,
\* reaches its end, whatever the declarations reference
C5_ClosureTerminatesOnce ==
    /\ [](\A i, j \in 1..Len(type_defs) : type_defs[i] = type_defs[j] => i = j)
    /\ (pc = "closure") ~> (pc = "gen_return")

\* a finished closure over the cyclic declarations Cart and User, both of
\* them used by the methods and both emitted
C5_Witness ==
    /\ pc = "gen_return"
    /\ {"cart", "user"} \subseteq used_types
    /\ {"cart", "user"} \subseteq DOMAIN all_type_defs
    /\ types_to_process = <<>>
    /\ Len(type_defs) >= 2

RECURSIVE RawTypes(_)
\* the identifiers of the custom types in a type expression
RawTypes(ty) ==
    CASE ty.t = "Path" ->
            IF ty.ident \in {"i32", "u32", "i64", "u64", "f32", "f64", "String", "bool"}
            THEN {}
            ELSE IF ty.ident \in {"Vec", "Option"}
            THEN (IF ty.args = <<>> THEN {} ELSE RawTypes(ty.args[1]))
            ELSE {ty.ident}
      [] ty.t = "Reference" -> RawTypes(ty.elem)
      [] ty.t = "Tuple" -> UNION {RawTypes(ty.elems[n]) : n \in 1..Len(ty.elems)}
      [] OTHER -> {}

CustomTypes(ty) == {to_kebab_case(x) : x \in RawTypes(ty)}

\* the named parameters of a method, its receiver left out
NamedInputs(method) ==
    {n \in 1..Len(method.inputs) :
        /\ method.inputs[n].arg = "Typed"
        /\ method.inputs[n].pat = "Ident"
        /\ method.inputs[n].ident # "self"}

\* the type expressions of a method's named parameters and of its return
MethodTypeExprs(method) ==
    {method.inputs[n].ty : n \in NamedInputs(method)}
    \cup (IF method.output = <<>> THEN {} ELSE {method.output[1]})

MethodTypes(method) == UNION {CustomTypes(ty) : ty \in MethodTypeExprs(method)}

\* the type expressions a declaration carries: the types of a record's named
\* fields, and of a variant's cases that have exactly one associated value
DeclTypeExprs(item) ==
    IF item.item = "Struct"
    THEN (IF item.shape = "Named"
          THEN {item.named[n].ty : n \in 1..Len(item.named)} ELSE {})
    ELSE IF item.item = "Enum"
    THEN {item.variants[n].tys[1] :
             n \in {n \in 1..Len(item.variants) :
                       item.variants[n].shape = "Unnamed"
                       /\ Len(item.variants[n].tys) = 1}}
    ELSE {}

DeclRefs(item) == UNION {CustomTypes(ty) : ty \in DeclTypeExprs(item)}

Marked(method) ==
    method.kind = "Fn" /\ method.attrs \cap {"remote", "local", "http"} # {}

\* C6: a generated interface holds the declaration of every declared custom
\* type used by the named parameters and returns of its exported methods,
\* and of every declared type a declaration it holds refers to
C6_ClosureIsTransitive ==
    (pc = "gen_return" /\ unwrap(gen_result).ok) =>
        LET content == unwrap(gen_result).v
            Declared(k) == k \in DOMAIN all_type_defs
            Has(k) == Declared(k) /\ contains(content, all_type_defs[k])
        IN  /\ \A m \in 1..Len(impl_item.items) :
                   Marked(impl_item.items[m]) =>
                       \A t \in MethodTypes(impl_item.items[m]) : Declared(t) => Has(t)
            /\ \A n \in 1..Len(ast) :
                   (ast[n].item \in {"Struct", "Enum"}
                    /\ Has(to_kebab_case(ast[n].ident))) =>
                       \A e \in DeclRefs(ast[n]) : Declared(e) => Has(e)

\* an interface whose only method returns Cart and that holds line-item and
\* user, which only Cart refers to
C6_Witness ==
    /\ pc = "gen_return" /\ unwrap(gen_result).ok
    /\ impl_item.items = <<GetCart>>
    /\ used_types = {"cart"}
    /\ contains(unwrap(gen_result).v, "record line-item {")
    /\ contains(unwrap(gen_result).v, "variant user {")

\* the positions before n of the methods that carry an export marker
MarkedBefore(n) == {i \in 1..(n - 1) : Marked(impl_item.items[i])}

\* every identifier the rendering of a method validates
MethodNames(method) ==
    {method.ident}
    \cup {method.inputs[n].ident : n \in NamedInputs(method)}
    \cup UNION {RawTypes(ty) : ty \in MethodTypeExprs(method)}

\* C7: the rendered functions are those of the methods with an export marker,
\* in order; used_types holds the custom types of those methods only; and a
\* naming error raised in the loop over the methods is about a marked method
C7_OnlyMarkedMethodsRendered ==
    pc \in {"methods", "collect", "closure", "gen_return"} =>
        LET items == impl_item.items
            before == MarkedBefore(method_idx)
        IN  /\ Len(functions) = Cardinality(before)
            /\ \A j \in 1..Len(functions) :
                   contains(functions[j],
                            "    " \o to_kebab_case(items[KthSmallest(before, j)].ident)
                            \o ": func(target: address")
            /\ used_types = UNION {MethodTypes(items[i]) : i \in before}
            /\ (pc = "gen_return" /\ ~unwrap(gen_result).ok /\ method_idx <= Len(items)) =>
                   /\ Marked(items[method_idx])
                   /\ unwrap(gen_result).e.name \in MethodNames(items[method_idx])

\* an interface generated from an unmarked method whose names break the
\* naming policy, followed by a marked method
C7_Witness ==
    /\ pc = "gen_return" /\ unwrap(gen_result).ok
    /\ impl_item.items = <<Helper, GetCart>>
    /\ Len(functions) = 1

ZeroFieldRecord(item) ==
    item.item = "Struct" /\ (item.shape # "Named" \/ item.named = <<>>)

\* C8 as stated: the returned map has no key that is the normalized name of a
\* record without named fields, and has the normalized name of every variant
C8_Original ==
    pc = "closure" =>
        \A n \in 1..Len(ast) :
            /\ ZeroFieldRecord(ast[n]) => to_kebab_case(ast[n].ident) \notin DOMAIN all_type_defs
            /\ ast[n].item = "Enum" => to_kebab_case(ast[n].ident) \in DOMAIN all_type_defs

\* C8 as amended: the keys of the returned map are the normalized names of
\* the variants and of the records with at least one named field, so that
\* the name of a record without named fields is a key only when such a
\* declaration normalizes to the same name
C8_KeysAreUsableDeclarations ==
    pc = "closure" =>
        DOMAIN all_type_defs =
            {to_kebab_case(ast[n].ident) :
                n \in {n \in 1..Len(ast) :
                          ast[n].item = "Enum"
                          \/ (ast[n].item = "Struct" /\ ~ZeroFieldRecord(ast[n]))}}

\* a returned map with the key of a record without named fields, to which a
\* variant declared before it normalizes as well
C8_Witness ==
    /\ pc = "closure"
    /\ Len(ast) = 2
    /\ ast[1].item = "Enum" /\ ZeroFieldRecord(ast[2])
    /\ to_kebab_case(ast[2].ident) \in DOMAIN all_type_defs

\* history: the content the manifest file `path` had when the walk began
ContentAtWalk(path) ==
    LET w == CHOOSE w \in EventsOf("walk") : TRUE IN events[w].data[path]

\* the name a header line declares: the first whitespace-delimited token
\* after the keyword, without the open brace written against it
DeclaredWorldName(world_line) ==
    LET token == split_whitespace(trim(world_line))[2]
    IN  IF ends_with(token, "{") THEN SubSeq(token, 1, Len(token) - 1) ELSE token

\* C11: a rewritten manifest has the header `world NAME {`, NAME being the
\* first token after the keyword in the old header without a trailing open
\* brace, whether the old header was `world NAME {` or `world NAME{`
C11_HeaderNameWithoutBrace ==
    \A k \in EventsOf("manifest") :
        LET old == unwrap(find_world_line(lines(ContentAtWalk(events[k].data))))
        IN  lines(api_dir[events[k].data])[1]
                = "world " \o DeclaredWorldName(old) \o " {"

\* the text the Mapper gives for a type expression
MappedText(ty) == rust_type_to_wit(ty, {}).v.wit

\* the parameter list of the function of a method: target first, then the
\* named non-receiver parameters in source order
ExpectedParams(method) ==
    <<"target: address">>
    \o [j \in 1..Cardinality(NamedInputs(method)) |->
           LET a == method.inputs[KthSmallest(NamedInputs(method), j)]
           IN  to_kebab_case(a.ident) \o ": " \o MappedText(a.ty)]

ExpectedReturn(method) ==
    "result<"
    \o (IF method.output = <<>> THEN "unit" ELSE MappedText(method.output[1]))
    \o ", string>"

\* C12: the signature line of every rendered function is the normalized
\* method name, then `target: address` followed by the mapped non-receiver
\* parameters in source order, then result<T, string> with T the mapped
\* return type, or unit for a method that declares none
C12_SignatureShape ==
    \A j \in 1..Len(functions) :
        LET method == impl_item.items[KthSmallest(MarkedBefore(method_idx), j)]
            ls == lines(functions[j])
        IN  ls[Len(ls)] = "    " \o to_kebab_case(method.ident) \o ": func("
                          \o join(ExpectedParams(method), ", ")
                          \o ") -> " \o ExpectedReturn(method) \o ";"

\* an interface with a function of two parameters and a declared return
\* type and one of a method that declares no return type and destructures
\* one of its parameters
C12_Witness ==
    /\ pc = "gen_return" /\ unwrap(gen_result).ok
    /\ impl_item.items = <<Checkout, Lookup>>
    /\ Len(functions) = 2
    /\ contains(functions[1], "func(target: address, cart: cart, user: user) -> result<list<line-item>, string>;")
    /\ contains(functions[2], "-> result<unit, string>;")

\* the fixed table of primitive spellings
PrimitiveTable ==
    { <<"i32", "s32">>, <<"u32", "u32">>, <<"i64", "s64">>, <<"u64", "u64">>,
      <<"f32", "f32">>, <<"f64", "f64">>, <<"String", "string">>, <<"bool", "bool">> }

\* the call was on one of the eight primitive types
PrimitiveCall ==
    pc = "map" /\ map_ty.t = "Path" /\ \E e \in PrimitiveTable : e[1] = map_ty.ident

\* C13: the Mapper returns for a primitive type the spelling of the table,
\* the eight spellings differ from each other, and the call leaves
\* used_types as it was
C13_PrimitiveTable ==
    /\ [](PrimitiveCall /\ mapped # None =>
            /\ unwrap(mapped).ok
            /\ <<map_ty.ident, unwrap(mapped).v.wit>> \in PrimitiveTable
            /\ unwrap(mapped).v.used = used_types)
    /\ [](\A a, b \in PrimitiveTable :
            rust_type_to_wit(TPath(a[1]), {}).v.wit
              = rust_type_to_wit(TPath(b[1]), {}).v.wit => a = b)
    /\ [][PrimitiveCall => used_types' = used_types]_vars

\* i64 was mapped, with a used_types set that held a name already
C13_Witness ==
    /\ pc = "map"
    /\ map_ty = TPath("i64")
    /\ mapped # None /\ unwrap(mapped).v.wit = "s64"
    /\ used_types = {"cart"}

\* history: the events of the aggregation phase
AggregationEvents == EventsOf("walk") \cup EventsOf("manifest") \cup EventsOf("default")

\* history: the events of the generation phase
GenerationEvents == EventsOf("begin") \cup EventsOf("interface") \cup EventsOf("result")

\* C14: the aggregator reads, rewrites and creates manifests only after every
\* project has been processed; while a project is unprocessed no manifest is
\* touched; and the projects are processed one after the other, each from
\* its beginning to its result before the next begins
C14_TwoPhases ==
    /\ \A k \in AggregationEvents :
           /\ next_project > Len(projects)
           /\ \A n \in 1..Len(projects) :
                  \E j \in 1..(k - 1) : events[j].ev = "result" /\ events[j].project = n
           /\ \A j \in GenerationEvents : j < k
    /\ (pc \in {"projects", "scan", "methods", "collect", "closure", "gen_return"}
        /\ next_project <= Len(projects)) => AggregationEvents = {}
    /\ \A k \in EventsOf("begin") :
           LET n == events[k].project
           IN  /\ \A j \in 1..(k - 1) : events[j].project < n
               /\ \A m \in 1..(n - 1) :
                      \E j \in 1..(k - 1) :
                          events[j].ev = "result" /\ events[j].project = m
    /\ \A k \in EventsOf("result") :
           \A j \in (k + 1)..Len(events) : events[j].project # events[k].project

\* a finished run of two projects that each wrote an interface file, after
\* which a manifest was rewritten
C14_Witness ==
    /\ pc = "exit"
    /\ Len(projects) = 2
    /\ \A n \in 1..2 : \E j \in EventsOf("interface") : events[j].project = n
    /\ EventsOf("manifest") # {}

\* the type name the next iteration of the closure loop pops
Popped == types_to_process[Len(types_to_process)]

\* an iteration of the closure loop that pops a name that is not processed
\* yet and has a declaration in the map
FoundStep ==
    /\ pc = "closure" /\ pc' = "closure"
    /\ types_to_process # <<>>
    /\ Popped \notin processed_types
    /\ Popped \in DOMAIN all_type_defs

\* the names that iteration pushed on the worklist
NewlyPushed ==
    {types_to_process'[i] : i \in Len(types_to_process)..Len(types_to_process')}

\* C15 as stated: the iteration pushes every other declaration, not yet
\* processed, whose rendered text holds the name of the popped declaration
C15_Original ==
    [][FoundStep =>
          NewlyPushed = {k \in DOMAIN all_type_defs \ {Popped} :
                            /\ contains(all_type_defs[k], Popped)
                            /\ k \notin processed_types'}]_vars

\* C15 as amended: the iteration scans the rendered text of the popped
\* declaration D and pushes every key of the declaration map, not yet
\* processed, that occurs in D's text
C15_PushesNamesInPoppedText ==
    [][FoundStep =>
          NewlyPushed = {k \in DOMAIN all_type_defs :
                            /\ contains(all_type_defs[Popped], k)
                            /\ k \notin processed_types'}]_vars

\* the iteration that popped cart has pushed line-item and user, the names
\* in the text of cart; only user holds the name cart in its own text
C15_Witness ==
    /\ pc = "closure"
    /\ used_types = {"cart"}
    /\ processed_types = {"cart"}
    /\ {types_to_process[i] : i \in 1..Len(types_to_process)} = {"line-item", "user"}
    /\ ~contains(all_type_defs["line-item"], "cart")
    /\ contains(all_type_defs["user"], "cart")

\* the normalized name of a record or variant declaration
DeclKey(item) == to_kebab_case(item.ident)

\* the rendering of a record or variant declaration
Rendering(item) ==
    IF item.item = "Enum"
    THEN VariantText(DeclKey(item), VariantStrings(item.variants, 1, <<>>).v)
    ELSE RecordText(DeclKey(item),
                    IF item.shape = "Named"
                    THEN FieldStrings(item.named, 1, <<>>).v ELSE <<>>)

\* the positions of the records and variants of ast that normalize to key k
DeclsOf(k) ==
    {n \in 1..Len(ast) : ast[n].item \in {"Struct", "Enum"} /\ DeclKey(ast[n]) = k}

\* those of them the collector keeps: variants, and records with a named field
UsableDeclsOf(k) == {n \in DeclsOf(k) : ~ZeroFieldRecord(ast[n])}

Last(S) == CHOOSE n \in S : \A m \in S : m <= n

\* C16 as stated: for a name two or more declarations normalize to, the
\* returned map holds the rendering of the last of them in source order
C16_Original ==
    pc = "closure" =>
        \A n \in 1..Len(ast) :
            (ast[n].item \in {"Struct", "Enum"}
             /\ Cardinality(DeclsOf(DeclKey(ast[n]))) >= 2) =>
                LET k == DeclKey(ast[n])
                IN  /\ k \in DOMAIN all_type_defs
                    /\ all_type_defs[k] = Rendering(ast[Last(DeclsOf(k))])

\* C16 as amended: for every name, the returned map holds the rendering of
\* the last declaration in source order among the variants and the records
\* with at least one named field that normalize to it; records without named
\* fields neither win nor remove an entry
C16_LastUsableDeclarationWins ==
    pc = "closure" =>
        \A n \in 1..Len(ast) :
            (ast[n].item \in {"Struct", "Enum"}
             /\ UsableDeclsOf(DeclKey(ast[n])) # {}) =>
                LET k == DeclKey(ast[n])
                IN  /\ k \in DOMAIN all_type_defs
                    /\ all_type_defs[k] = Rendering(ast[Last(UsableDeclsOf(k))])

\* a returned map for a record, then a variant, then a record without named
\* fields, all of one normalized name: the entry is the variant's
C16_Witness ==
    /\ pc = "closure"
    /\ Len(ast) = 3
    /\ Cardinality(DeclsOf("order-item")) = 3
    /\ ast[1].item = "Struct" /\ ~ZeroFieldRecord(ast[1])
    /\ ast[2].item = "Enum"
    /\ ZeroFieldRecord(ast[3])
    /\ all_type_defs["order-item"] = Rendering(ast[2])

\* the interface name of an interface file X.wit
Stem(file) == SubSeq(file, 1, Len(file) - 4)

\* history: the interface files written during the run
InterfaceFilesWritten == {events[j].data : j \in EventsOf("interface")}

\* the export lines of a manifest
ExportLines(content) ==
    LET ls == lines(content)
    IN  {ls[n] : n \in {n \in 1..Len(ls) : starts_with(ls[n], "    export ")}}

\* C17: at the end of a run every manifest the aggregator wrote exports
\* exactly the interfaces whose files were written during the run
C17_ExportsAreFilesWritten ==
    pc = "exit" =>
        \A k \in ManifestEvents :
            ExportLines(api_dir[events[k].data])
                = {ExportStatement(Stem(f)) : f \in InterfaceFilesWritten}

=============================================================================
